---- MODULE Spec2Model ----
(***************************************************************************)
(* HttpRetryService (src/unnamed/part_001): one call of get() and one      *)
(* subscription to the stream it returns.                                  *)
(*                                                                         *)
(* The cancel signal is a hot Subject, as in RetryServiceComponent         *)
(* (src/unnamed/part_000:30): one firing is delivered, in subscription     *)
(* order, to every subscription that exists at that moment.                *)
(*                                                                         *)
(* Time is counted in milliseconds.  It advances only while a timer is     *)
(* pending (the duration of a GET is not counted); timers fire in the      *)
(* order of their due time and, for the same due time, in the order they   *)
(* were registered.                                                        *)
(***************************************************************************)
EXTENDS Integers, Sequences, FiniteSets, TLC

(***************************************************************************)
(* Bounds of the checked instances.                                        *)
(***************************************************************************)
MaxRetriesChecked == 2
IntervalChecked == 2
UpdateIntervalChecked == 1

(***************************************************************************)
(* Program constants.                                                      *)
(***************************************************************************)
MAX_RETRIES == 10
MAX_RETRY_INTERVAL == 60000
MAX_UPDATE_INTERVAL == 10000

UNEXPECTED_RESPONSE_FORMAT == 0
DATA_NOT_READY_YET == 1
UNKNOWN_ERROR == 2

ErrorCodes == {UNEXPECTED_RESPONSE_FORMAT, DATA_NOT_READY_YET, UNKNOWN_ERROR}

ErrorMessages(errorCode) ==
    CASE errorCode = UNEXPECTED_RESPONSE_FORMAT -> "Unexpected response format."
      [] errorCode = DATA_NOT_READY_YET -> "Data not ready yet."
      [] errorCode = UNKNOWN_ERROR -> "Server error."

\* mutant: progress events are off by default
defaultOptions_noUpdates ==
    [retries |-> 3, interval |-> 3000, strategy |-> "linear",
     updateInterval |-> 1000, retryOnServerFailure |-> FALSE,
     retryOnUnexpectedFormat |-> FALSE, liveUpdates |-> TRUE,
     noUpdates |-> TRUE, nonInteger |-> {}]

defaultOptions ==
    [retries |-> 3, interval |-> 3000, strategy |-> "linear",
     updateInterval |-> 1000, retryOnServerFailure |-> FALSE,
     retryOnUnexpectedFormat |-> FALSE, liveUpdates |-> TRUE,
     noUpdates |-> FALSE, nonInteger |-> {}]

(***************************************************************************)
(* Options as get() sees them after merging with the defaults.  A numeric  *)
(* option is an integer n, or n + 0.5 when its name is in nonInteger.      *)
(***************************************************************************)
Strategies == {"linear", "exponential"}

ValidOptions ==
    [retries : 0..MaxRetriesChecked,
     interval : {0, IntervalChecked},
     strategy : Strategies,
     updateInterval : {UpdateIntervalChecked},
     retryOnServerFailure : BOOLEAN,
     retryOnUnexpectedFormat : BOOLEAN,
     liveUpdates : BOOLEAN,
     noUpdates : BOOLEAN,
     nonInteger : {{}}]

\* the options of the README examples, each with one option made unusable
BaseOptions ==
    {defaultOptions,
     [defaultOptions EXCEPT !.retries = 1, !.interval = 0, !.noUpdates = TRUE]}

Unusable(o) ==
    {[o EXCEPT !.retries = v] : v \in {-1, MAX_RETRIES + 1}}
    \cup {[o EXCEPT !.interval = v] : v \in {-1, MAX_RETRY_INTERVAL + 1}}
    \cup {[o EXCEPT !.updateInterval = v] : v \in {-1, MAX_UPDATE_INTERVAL + 1}}
    \cup {[o EXCEPT !.nonInteger = {f}] :
             f \in {"retries", "interval", "updateInterval"}}
    \cup {[o EXCEPT !.strategy = s] : s \in {"quadratic", ""}}

BadOptions == UNION {Unusable(o) : o \in BaseOptions}

Data == {"x", "y"}

\* HttpClient outcomes: the status and the parsed body (<<>> is no body)
Responses ==
    {[status |-> 200, body |-> [ready |-> TRUE, data |-> d]] : d \in Data}
    \cup
    {[status |-> 200, body |-> [ready |-> FALSE, data |-> "x"]],
     [status |-> 200, body |-> [ready |-> TRUE]],
     [status |-> 404, body |-> [ready |-> FALSE]],
     [status |-> 404, body |-> [ready |-> TRUE, data |-> "x"]],
     [status |-> 500, body |-> [error |-> "500 error"]],
     [status |-> 0, body |-> <<>>]}

NoTimer == [pending |-> FALSE]

\* no second operation has been started
NoOperation == [exists |-> FALSE]

VARIABLES
    options,      \* allOptions of get()
    callState,    \* "idle", "threw" (validateOptions threw), "returned"
    subscribed,   \* the returned stream has been subscribed to
    attempts,     \* let attempts of request()
    startTime,    \* const startTime of request()
    now,          \* Date.now()
    stopped,      \* observer.isStopped of the stream's subscriber
    events,       \* values passed to the subscriber's next, in order
    gets,         \* number of GET requests issued through http.get
    httpPending,  \* a GET is in flight and its subscription is live
    replies,      \* outcomes delivered to checkResponseObserver, in order
    wait,         \* the timer(delay) of retryFetchAfterDelay
    live,         \* the timer(0, updateInterval) stream of sendLiveUpdates
    cancelled,    \* the callback of cancelSignal.subscribe has run
    other,        \* the other operation started by the same loadData caller
    unsubscribed  \* the caller has unsubscribed from the stream

vars == <<options, callState, subscribed, attempts, startTime, now, stopped,
          events, gets, httpPending, replies, wait, live, cancelled,
          other, unsubscribed>>

(***************************************************************************)
(* Pure helpers of the service.                                            *)
(***************************************************************************)
IsInteger(o, name) == name \notin o.nonInteger

InvalidNumber(o, name, value, max) ==
    \/ ~IsInteger(o, name)
    \/ value < 0
    \/ value > max

\* TRUE when validateOptions returns, FALSE when it throws
validateOptions(o) ==
    /\ ~InvalidNumber(o, "retries", o.retries, MAX_RETRIES)
    /\ ~InvalidNumber(o, "interval", o.interval, MAX_RETRY_INTERVAL)
    /\ ~InvalidNumber(o, "updateInterval", o.updateInterval, MAX_UPDATE_INTERVAL)
    /\ ~(o.strategy # "" /\ o.strategy \notin Strategies)

\* mutant: the exponent counts the retry being scheduled
calculateDelayBeforeRetry_nextAttempt(interval, att, strategy) ==
    IF strategy = "linear" THEN interval ELSE interval * (2 ^ (att + 1))

calculateDelayBeforeRetry(interval, att, strategy) ==
    IF strategy = "linear" THEN interval ELSE interval * (2 ^ att)

checkForValidResponse(r) ==
    /\ r.status = 200
    /\ "ready" \in DOMAIN r.body /\ r.body.ready = TRUE
    /\ "data" \in DOMAIN r.body

\* mutant: every 404 counts as not ready
checkResponseForRetry_statusOnly(r) == r.status = 404

checkResponseForRetry(r) ==
    /\ r.status = 404
    /\ "ready" \in DOMAIN r.body /\ r.body.ready = FALSE

createErrorObject(errorCode) ==
    [errorCode |-> errorCode, errorMessage |-> ErrorMessages(errorCode)]

buildErrorResponse(errorData) == [error |-> errorData]

\* observer.next: a stopped subscriber drops the value
sendResponse(evs, isStopped, serviceResponse) ==
    IF isStopped THEN evs ELSE Append(evs, serviceResponse)

\* mutant: the body is forwarded as it came
sendAndCompleteResponse_asReceived(body) == body

\* {...serviceResponse, loading: false}
sendAndCompleteResponse(body) ==
    [loading |-> FALSE] @@ body

\* {...buildErrorResponse({...createErrorObject(errorCode), ...additionalData}), loading: false}
sendErrorResponse(errorCode, additionalData) ==
    [loading |-> FALSE]
      @@ buildErrorResponse(additionalData @@ createErrorObject(errorCode))


\* mutant: the stream is left open
completeOperation_noop(isStopped) == isStopped

\* completeOperation: observer.complete()
completeOperation(isStopped) == TRUE

computeTotalDelay(start, endTime) == endTime - start

\* Math.ceil(a / b) and (a / b).toFixed(0) for a >= 0, b > 0
Ceil(a, b) == (a + b - 1) \div b
ToFixed0(a, b) == (2 * a + b) \div (2 * b)

\* mutant: one retry too many
retriesExhausted_offByOne(att, retries) == att > retries

\* mutant: the budget is never tested
retriesExhausted_never(att, retries) == FALSE

\* attempts >= options.retries in scheduleRetry
retriesExhausted(att, retries) == att >= retries

\* mutant: the test of noUpdates is inverted
fetchDataLoading_inverted(o) ==
    IF o.noUpdates THEN <<[loading |-> TRUE]>> ELSE <<>>

\* mutant: the loading event ignores noUpdates
fetchDataLoading_always(o) == <<[loading |-> TRUE]>>

\* options.noUpdates || this.sendResponse({loading: true}, observer)
fetchDataLoading(o) == IF o.noUpdates THEN <<>> ELSE <<[loading |-> TRUE]>>

\* mutant: the attempt report is left out
retryUpdates_liveOnly(o) ==
    IF ~o.noUpdates /\ o.liveUpdates THEN "live" ELSE "none"

\* the progress report scheduleRetry chooses
retryUpdates(o) ==
    IF o.noUpdates THEN "none"
    ELSE IF o.liveUpdates THEN "live" ELSE "attempts"

sendAttemptsUpdate(errorCode, att, o) ==
    sendErrorResponse(errorCode,
        [message |-> <<"Attempt", att, "of", o.retries>>,
         attempts |-> att,
         maxRetries |-> o.retries])

\* mutant: the exhaustion always reports that the data is not ready
sendMaxRetriesError_notReady(errorCode, start, o, att, endTime) ==
    sendErrorResponse(DATA_NOT_READY_YET,
        [message |-> <<"Max retries reached. Retried", o.retries,
                       "times over",
                       ToFixed0(computeTotalDelay(start, endTime), 1000),
                       "seconds.">>,
         attempts |-> att,
         maxRetries |-> o.retries,
         totalDelay |-> [ms |-> computeTotalDelay(start, endTime),
                         per |-> 1000]])

\* mutant: the exhaustion is reported like one more attempt
sendMaxRetriesError_asAttempt(errorCode, start, o, att, endTime) ==
    sendErrorResponse(errorCode,
        [message |-> <<"Attempt", att, "of", o.retries>>,
         attempts |-> att,
         maxRetries |-> o.retries])

sendMaxRetriesError(errorCode, start, o, att, endTime) ==
    LET totalDelay == computeTotalDelay(start, endTime)
    IN  sendErrorResponse(errorCode,
            [message |-> <<"Max retries reached. Retried", o.retries,
                           "times over", ToFixed0(totalDelay, 1000), "seconds.">>,
             attempts |-> att,
             maxRetries |-> o.retries,
             totalDelay |-> [ms |-> totalDelay, per |-> 1000]])

\* the value the map() of sendLiveUpdates builds for one tick
liveUpdate(l, o, dateNow) ==
    LET remainingTime == IF l.retryEndTime - dateNow > 0
                         THEN l.retryEndTime - dateNow ELSE 0
    IN  [loading |-> FALSE]
          @@ buildErrorResponse(
               [message |-> <<"Retrying in", Ceil(remainingTime, 1000),
                              "seconds... (Attempt", l.attempts, "of", o.retries>>,
                attempts |-> l.attempts,
                maxRetries |-> o.retries,
                delay |-> remainingTime]
               @@ createErrorObject(l.errorCode))

\* HttpClient hands a 2xx response to next and anything else to error
IsSuccessStatus(status) == status >= 200 /\ status < 300

\* checkResponseObserver.next: what the handler does with a 2xx response
onNext(r, o) ==
    IF checkForValidResponse(r) THEN [do |-> "send"]
    ELSE IF o.retryOnUnexpectedFormat
         THEN [do |-> "retry", errorCode |-> UNEXPECTED_RESPONSE_FORMAT]
         ELSE [do |-> "fail", errorCode |-> UNEXPECTED_RESPONSE_FORMAT]

\* mutant: the flag is consulted before the not-ready check
onError_flagFirst(r, o) ==
    IF ~o.retryOnServerFailure
    THEN [do |-> "fail", errorCode |-> UNKNOWN_ERROR]
    ELSE IF checkResponseForRetry(r)
         THEN [do |-> "retry", errorCode |-> DATA_NOT_READY_YET]
         ELSE [do |-> "retry", errorCode |-> UNKNOWN_ERROR]

\* mutant: a failure without an HTTP status is never retried
onError_statusless(r, o) ==
    IF checkResponseForRetry(r)
    THEN [do |-> "retry", errorCode |-> DATA_NOT_READY_YET]
    ELSE IF o.retryOnServerFailure /\ r.status # 0
         THEN [do |-> "retry", errorCode |-> UNKNOWN_ERROR]
         ELSE [do |-> "fail", errorCode |-> UNKNOWN_ERROR]

\* checkResponseObserver.error: what the handler does with a failed request
onError(r, o) ==
    IF checkResponseForRetry(r)
    THEN [do |-> "retry", errorCode |-> DATA_NOT_READY_YET]
    ELSE IF o.retryOnServerFailure
         THEN [do |-> "retry", errorCode |-> UNKNOWN_ERROR]
         ELSE [do |-> "fail", errorCode |-> UNKNOWN_ERROR]

checkResponseObserver(r, o) ==
    IF IsSuccessStatus(r.status) THEN onNext(r, o) ELSE onError(r, o)

\* mutant: the GET is not bound to the cancel signal
fetchDataTakeUntil_missing(pending) == pending

\* takeUntil(cancelSignal) of fetchData, retryFetchAfterDelay, sendLiveUpdates
fetchDataTakeUntil(pending) == FALSE

\* mutant: the wait timer is not bound to the cancel signal
retryFetchTakeUntil_missing(w) == w

retryFetchTakeUntil(w) == NoTimer

\* mutant: the countdown is not bound to the cancel signal
liveUpdatesTakeUntil_missing(l) == l

liveUpdatesTakeUntil(l) == NoTimer

(***************************************************************************)
(* The state after the service is constructed and the options are chosen.  *)
(***************************************************************************)
Init ==
    /\ options \in ValidOptions \cup BadOptions \cup {defaultOptions}
    /\ callState = "idle"
    /\ subscribed = FALSE
    /\ attempts = 0
    /\ startTime = 0
    /\ now = 0
    /\ stopped = FALSE
    /\ events = <<>>
    /\ gets = 0
    /\ httpPending = FALSE
    /\ replies = <<>>
    /\ wait = NoTimer
    /\ live = NoTimer
    /\ cancelled = FALSE
    /\ other = NoOperation
    /\ unsubscribed = FALSE

\* get(): merge, validate, build the stream in request()
Get ==
    /\ callState = "idle"
    /\ IF validateOptions(options)
       THEN /\ callState' = "returned"
            /\ attempts' = 0
            /\ startTime' = now
       ELSE /\ callState' = "threw"
            /\ UNCHANGED <<attempts, startTime>>
    /\ UNCHANGED <<unsubscribed, other, options, subscribed, now, stopped, events, gets,
                   httpPending, replies, wait, live, cancelled>>

\* fetchData: the loading event, then one GET
fetchData ==
    /\ events' = IF fetchDataLoading(options) = <<>> THEN events
                 ELSE sendResponse(events, stopped, fetchDataLoading(options)[1])
    /\ gets' = gets + 1
    /\ httpPending' = TRUE

\* the subscribe function of the stream: subscribe to the cancel signal,
\* then initiate the data fetch
Subscribe ==
    /\ callState = "returned"
    /\ ~subscribed
    /\ subscribed' = TRUE
    /\ fetchData
    /\ UNCHANGED <<unsubscribed, other, options, callState, attempts, startTime, now, stopped,
                   replies, wait, live, cancelled>>

\* scheduleRetry(errorCode)
scheduleRetry(errorCode) ==
    IF retriesExhausted(attempts, options.retries)
    THEN /\ events' = sendResponse(events, stopped,
                        sendMaxRetriesError(errorCode, startTime, options,
                                            attempts, now))
         /\ stopped' = completeOperation(stopped)
         /\ UNCHANGED <<attempts, wait, live>>
    ELSE LET delayBeforeRetry ==
                 calculateDelayBeforeRetry(options.interval, attempts,
                                           options.strategy)
         IN  /\ events' = IF retryUpdates(options) = "attempts"
                          THEN sendResponse(events, stopped,
                                 sendAttemptsUpdate(errorCode, attempts, options))
                          ELSE events
             /\ live' = IF retryUpdates(options) = "live"
                        THEN [pending |-> TRUE,
                              retryEndTime |-> now + delayBeforeRetry,
                              nextTick |-> now,
                              attempts |-> attempts,
                              errorCode |-> errorCode]
                        ELSE live
             /\ attempts' = attempts + 1
             /\ wait' = [pending |-> TRUE, due |-> now + delayBeforeRetry]
             /\ UNCHANGED stopped

\* the GET in flight resolves with r and checkResponseObserver handles it
Respond(r) ==
    /\ httpPending
    /\ httpPending' = FALSE
    /\ replies' = Append(replies, r)
    /\ LET h == checkResponseObserver(r, options)
       IN  CASE h.do = "send" ->
                  /\ events' = sendResponse(events, stopped,
                                            sendAndCompleteResponse(r.body))
                  /\ stopped' = completeOperation(stopped)
                  /\ UNCHANGED <<attempts, wait, live>>
             [] h.do = "fail" ->
                  /\ events' = sendResponse(events, stopped,
                                            sendErrorResponse(h.errorCode, <<>>))
                  /\ stopped' = completeOperation(stopped)
                  /\ UNCHANGED <<attempts, wait, live>>
             [] h.do = "retry" -> scheduleRetry(h.errorCode)
    /\ UNCHANGED <<unsubscribed, other, options, callState, subscribed, startTime, now, gets,
                   cancelled>>

\* one tick of timer(0, updateInterval) in sendLiveUpdates
LiveTick ==
    /\ live.pending
    /\ live.nextTick <= now
    /\ now < live.retryEndTime
    /\ events' = sendResponse(events, stopped, liveUpdate(live, options, now))
    /\ live' = [live EXCEPT !.nextTick = @ + options.updateInterval]
    /\ UNCHANGED <<unsubscribed, other, options, callState, subscribed, attempts, startTime, now,
                   stopped, gets, httpPending, replies, wait, cancelled>>

\* takeUntil(timer(delay)) of sendLiveUpdates: registered before the first
\* tick and before the wait timer, so it fires first at its due time
LiveStop ==
    /\ live.pending
    /\ now >= live.retryEndTime
    /\ live' = NoTimer
    /\ UNCHANGED <<unsubscribed, other, options, callState, subscribed, attempts, startTime, now,
                   stopped, events, gets, httpPending, replies, wait,
                   cancelled>>

\* mutant: the wait timer is registered before the countdown's stop timer
WaitElapsed_beforeLiveStop ==
    /\ wait.pending
    /\ now >= wait.due
    /\ wait' = NoTimer
    /\ fetchData
    /\ UNCHANGED <<unsubscribed, other, options, callState, subscribed, attempts, startTime, now,
                   stopped, replies, live, cancelled>>

\* mutant: the timer fires but the request is never made
WaitElapsed_noFetch ==
    /\ wait.pending
    /\ now >= wait.due
    /\ ~live.pending
    /\ wait' = NoTimer
    /\ UNCHANGED <<unsubscribed, other, options, callState, subscribed, attempts, startTime, now,
                   stopped, events, gets, httpPending, replies, live,
                   cancelled>>

\* timer(delay) of retryFetchAfterDelay fires: switchMap to fetchData
WaitElapsed ==
    /\ wait.pending
    /\ now >= wait.due
    /\ ~live.pending
    /\ wait' = NoTimer
    /\ fetchData
    /\ UNCHANGED <<unsubscribed, other, options, callState, subscribed, attempts, startTime, now,
                   stopped, replies, live, cancelled>>

Min(S) == CHOOSE m \in S : \A n \in S : m <= n

TimersDue(w, l) ==
    (IF w.pending THEN {w.due} ELSE {})
    \cup (IF l.pending THEN {l.retryEndTime, l.nextTick} ELSE {})

PendingDue ==
    TimersDue(wait, live)
    \cup (IF other.exists THEN TimersDue(other.wait, other.live) ELSE {})

\* no timer is due: the clock moves to the next due time
AdvanceTime ==
    /\ PendingDue # {}
    /\ \A d \in PendingDue : d > now
    /\ now' = Min(PendingDue)
    /\ UNCHANGED <<unsubscribed, other, options, callState, subscribed, attempts, startTime,
                   stopped, events, gets, httpPending, replies, wait, live,
                   cancelled>>

\* mutant: the cancel signal does not reach the operation
cancelNext_unheard(op) == op

\* cancel$.next() as an operation that is not the one in hand receives it:
\* the callback of line 195, then every takeUntil(cancelSignal)
cancelNext(op) ==
    IF ~op.exists THEN op
    ELSE [op EXCEPT !.cancelled = TRUE,
                    !.stopped = completeOperation(@),
                    !.httpPending = fetchDataTakeUntil(@),
                    !.wait = retryFetchTakeUntil(@),
                    !.live = liveUpdatesTakeUntil(@)]

\* the cancel signal fires: the callback of line 195 runs first, then every
\* takeUntil(cancelSignal) ends its stream
Cancel ==
    /\ subscribed
    /\ cancelled' = TRUE
    /\ stopped' = completeOperation(stopped)
    /\ httpPending' = fetchDataTakeUntil(httpPending)
    /\ wait' = retryFetchTakeUntil(wait)
    /\ live' = liveUpdatesTakeUntil(live)
    /\ other' = cancelNext(other)
    /\ UNCHANGED <<unsubscribed, options, callState, subscribed, attempts, startTime, now,
                   events, gets, replies>>

Next ==
    \/ Get
    \/ Subscribe
    \/ \E r \in Responses : Respond(r)
    \/ LiveTick
    \/ LiveStop
    \/ WaitElapsed
    \/ AdvanceTime
    \/ Cancel

Spec == Init /\ [][Next]_vars

\* requests resolve and timers fire; the caller is free never to cancel
Fairness ==
    /\ WF_vars(\E r \in Responses : Respond(r))
    /\ WF_vars(LiveTick)
    /\ WF_vars(LiveStop)
    /\ WF_vars(WaitElapsed)
    /\ WF_vars(AdvanceTime)

LiveSpec == Init /\ [][Next]_vars /\ Fairness

(***************************************************************************)
(* Vocabulary of the properties.                                           *)
(***************************************************************************)
Last(s) == s[Len(s)]

ReadyReply(d) == [status |-> 200, body |-> [ready |-> TRUE, data |-> d]]
NotReadyReply == [status |-> 404, body |-> [ready |-> FALSE]]
NetworkFaultReply == [status |-> 0, body |-> <<>>]

IsErrorEvent(e) == "error" \in DOMAIN e
IsReadyEvent(e) == "ready" \in DOMAIN e
IsProgressEvent(e) ==
    /\ IsErrorEvent(e)
    /\ "message" \in DOMAIN e.error
    /\ e.error.message[1] \in {"Attempt", "Retrying in"}
IsCountdownEvent(e) ==
    IsProgressEvent(e) /\ e.error.message[1] = "Retrying in"
\* the event that ends an operation: the data, or an error that is not a
\* progress report
IsTerminalEvent(e) ==
    \/ IsReadyEvent(e) /\ e.ready = TRUE /\ "data" \in DOMAIN e
                       /\ e.loading = FALSE
    \/ IsErrorEvent(e) /\ ~IsProgressEvent(e)
                       /\ e.error.errorCode \in ErrorCodes
TerminalCount(evs) ==
    Cardinality({i \in 1..Len(evs) : IsTerminalEvent(evs[i])})

HasErrorCode(e, errorCode) ==
    IsErrorEvent(e) /\ e.error.errorCode = errorCode

\* the step in which the GET in flight resolved with r
Responded(r) == replies' = Append(replies, r)

(***************************************************************************)
(* C1: when the first GET resolves with status 200 and body                *)
(* {ready: true, data: D}, exactly one GET is issued, the stream is        *)
(* complete, its last event is {ready: true, data: D, loading: false} and  *)
(* that is the only terminal event.                                        *)
(***************************************************************************)
THM_C1 ==
    \A d \in Data :
        (replies # <<>> /\ replies[1] = ReadyReply(d)) =>
            /\ gets = 1
            /\ Len(replies) = 1
            /\ stopped
            /\ events # <<>>
            /\ Last(events) = [ready |-> TRUE, data |-> d, loading |-> FALSE]
            /\ TerminalCount(events) = 1
            /\ ~httpPending /\ ~wait.pending /\ ~live.pending

WIT_C1 ==
    /\ options \in ValidOptions
    /\ replies = <<ReadyReply("y")>>
    /\ ~cancelled
    /\ stopped
    /\ Len(events) = 2

(***************************************************************************)
(* C2: with retries = N, no cancellation and every attempt answered        *)
(* 404 {ready: false}, at most N + 1 GETs are issued, the stream completes *)
(* exactly when the (N + 1)-th answer arrives, and then N + 1 GETs were    *)
(* issued and the last event is the only terminal one: an error with       *)
(* errorCode DATA_NOT_READY_YET, attempts = N and maxRetries = N.          *)
(***************************************************************************)
AllNotReady == \A i \in 1..Len(replies) : replies[i] = NotReadyReply

THM_C2 ==
    (subscribed /\ ~cancelled /\ AllNotReady) =>
        /\ gets <= options.retries + 1
        /\ stopped <=> Len(replies) = options.retries + 1
        /\ stopped =>
             /\ gets = options.retries + 1
             /\ HasErrorCode(Last(events), DATA_NOT_READY_YET)
             /\ Last(events).error.attempts = options.retries
             /\ Last(events).error.maxRetries = options.retries
             /\ "totalDelay" \in DOMAIN Last(events).error
             /\ TerminalCount(events) = 1

WIT_C2 ==
    /\ options \in ValidOptions
    /\ options.retries = MaxRetriesChecked
    /\ ~cancelled
    /\ AllNotReady
    /\ stopped
    /\ gets = MaxRetriesChecked + 1

(***************************************************************************)
(* C3: from the step in which the cancel signal fires onwards, the event   *)
(* list of the stream never changes and the stream is complete.            *)
(***************************************************************************)
THM_C3 == [][cancelled' => (events' = events /\ stopped')]_vars

\* cancelled while the countdown of the second wait was being reported
WIT_C3 ==
    /\ options \in ValidOptions
    /\ cancelled
    /\ gets = 2
    /\ events # <<>>
    /\ IsCountdownEvent(Last(events))

(***************************************************************************)
(* C4: from the step in which the cancel signal fires onwards, no GET is   *)
(* in flight, no wait timer and no countdown stream is pending, no GET is  *)
(* issued, no outcome is delivered and no retry is scheduled.              *)
(***************************************************************************)
THM_C4 ==
    [][cancelled' =>
          /\ ~httpPending' /\ ~wait'.pending /\ ~live'.pending
          /\ gets' = gets
          /\ replies' = replies
          /\ attempts' = attempts]_vars

\* cancelled while the second GET was in flight
WIT_C4 ==
    /\ options \in ValidOptions
    /\ cancelled
    /\ gets = 2
    /\ Len(replies) = 1
    /\ ~httpPending

(***************************************************************************)
(* C5: a stream that completed without the cancel signal ends with a       *)
(* terminal event (the data, or an error record with an errorCode); at     *)
(* most one terminal event is ever emitted and nothing follows it; when    *)
(* the cancel signal ends a running operation, the stream completes with   *)
(* no terminal event.                                                      *)
(***************************************************************************)
TerminalShape ==
    /\ TerminalCount(events) <= 1
    /\ TerminalCount(events) = 1 => (IsTerminalEvent(Last(events)) /\ stopped)
    /\ (stopped /\ ~cancelled) => TerminalCount(events) = 1

CancelIsSilent ==
    /\ (cancelled' /\ ~stopped) => (stopped' /\ TerminalCount(events') = 0)
    /\ stopped => (stopped' /\ events' = events)

THM_C5 == []TerminalShape /\ [][CancelIsSilent]_vars

\* one operation ended by exhausting its retries on server errors
WIT_C5 ==
    /\ options \in ValidOptions
    /\ stopped /\ ~cancelled
    /\ Len(replies) >= 2
    /\ HasErrorCode(Last(events), UNKNOWN_ERROR)
    /\ IsTerminalEvent(Last(events))
    /\ Len(events) > 2

(***************************************************************************)
(* C6: when requests resolve and timers fire, every operation that was     *)
(* started ends: its stream eventually completes.                          *)
(***************************************************************************)
THM_C6 == subscribed ~> stopped

\* an operation that ran through all its retries and ended by itself
WIT_C6 ==
    /\ options \in ValidOptions
    /\ stopped /\ ~cancelled
    /\ options.retries = MaxRetriesChecked
    /\ attempts = MaxRetriesChecked
    /\ now > 0

(***************************************************************************)
(* C7: at any attempt, a 200 response of the wrong shape with              *)
(* retryOnUnexpectedFormat off, or a failure that is not 404 {ready:false} *)
(* with retryOnServerFailure off, appends exactly one error event with     *)
(* errorCode UNEXPECTED_RESPONSE_FORMAT (resp. UNKNOWN_ERROR), completes   *)
(* the stream and leaves nothing pending, and no GET follows a completed   *)
(* stream; a 404 {ready:false} with attempts < retries always schedules a  *)
(* retry, whatever the two flags are.                                      *)
(***************************************************************************)
Classify(r) ==
    IF r.status = 200
    THEN IF "ready" \in DOMAIN r.body /\ r.body.ready = TRUE
            /\ "data" \in DOMAIN r.body
         THEN "Ready" ELSE "FormatInvalid"
    ELSE IF r.status = 404 /\ "ready" \in DOMAIN r.body /\ r.body.ready = FALSE
         THEN "NotReadyRetryable" ELSE "ServerFailure"

EndsWith(errorCode) ==
    /\ Len(events') = Len(events) + 1
    /\ SubSeq(events', 1, Len(events)) = events
    /\ HasErrorCode(Last(events'), errorCode)
    /\ IsTerminalEvent(Last(events'))
    /\ stopped'
    /\ ~httpPending' /\ ~wait'.pending /\ ~live'.pending
    /\ gets' = gets
    /\ attempts' = attempts

RetryScheduled ==
    /\ ~stopped'
    /\ attempts' = attempts + 1
    /\ wait'.pending
    /\ ~httpPending'
    /\ gets' = gets

OnOutcome(r) ==
    /\ (Classify(r) = "FormatInvalid" /\ ~options.retryOnUnexpectedFormat)
          => EndsWith(UNEXPECTED_RESPONSE_FORMAT)
    /\ (Classify(r) = "ServerFailure" /\ ~options.retryOnServerFailure)
          => EndsWith(UNKNOWN_ERROR)
    /\ (Classify(r) = "NotReadyRetryable" /\ attempts < options.retries)
          => RetryScheduled

THM_C7 ==
    [][/\ \A r \in Responses : Responded(r) => OnOutcome(r)
       /\ stopped => gets' = gets]_vars

\* a malformed 200 at the second attempt ended the operation
WIT_C7 ==
    /\ options \in ValidOptions
    /\ Len(replies) = 2
    /\ replies[1] = NotReadyReply
    /\ Classify(replies[2]) = "FormatInvalid"
    /\ ~options.retryOnUnexpectedFormat
    /\ options.retryOnServerFailure
    /\ stopped /\ ~cancelled
    /\ HasErrorCode(Last(events), UNEXPECTED_RESPONSE_FORMAT)

(***************************************************************************)
(* C8 as stated: a failure without an HTTP status ends the operation with  *)
(* one UNKNOWN_ERROR event and is never retried, whatever the options.     *)
(***************************************************************************)
CEX_C8 == [][Responded(NetworkFaultReply) => EndsWith(UNKNOWN_ERROR)]_vars

(***************************************************************************)
(* C8 amended: a failure without an HTTP status is handled like any other  *)
(* server failure.  With retryOnServerFailure off it ends the operation    *)
(* with one UNKNOWN_ERROR event and no retry; with retryOnServerFailure on *)
(* it schedules a retry while attempts < retries and ends the operation    *)
(* with one UNKNOWN_ERROR event once attempts = retries.                   *)
(***************************************************************************)
THM_C8 ==
    [][Responded(NetworkFaultReply) =>
          IF options.retryOnServerFailure /\ attempts < options.retries
          THEN RetryScheduled
          ELSE EndsWith(UNKNOWN_ERROR)]_vars

\* a network fault at the first attempt was retried and the retry failed
\* the same way
WIT_C8 ==
    /\ options \in ValidOptions
    /\ replies = <<NetworkFaultReply, NetworkFaultReply>>
    /\ options.retryOnServerFailure
    /\ options.retries = 1
    /\ stopped /\ ~cancelled
    /\ HasErrorCode(Last(events), UNKNOWN_ERROR)

(***************************************************************************)
(* C9: when a numeric option is negative, not an integer or above its      *)
(* maximum, or the strategy is neither linear nor exponential, get throws: *)
(* no stream is returned, no GET is issued and no event is emitted.        *)
(***************************************************************************)
OutOfBounds(o) ==
    \/ o.nonInteger # {}
    \/ o.retries < 0 \/ o.retries > MAX_RETRIES
    \/ o.interval < 0 \/ o.interval > MAX_RETRY_INTERVAL
    \/ o.updateInterval < 0 \/ o.updateInterval > MAX_UPDATE_INTERVAL
    \/ o.strategy \notin {"linear", "exponential"}

CEX_C9 ==
    OutOfBounds(options) =>
        /\ callState # "returned"
        /\ ~subscribed
        /\ gets = 0
        /\ events = <<>>

(***************************************************************************)
(* C10: with noUpdates on and no cancellation, the stream carries no event *)
(* while the operation runs and exactly one event, the terminal one, once  *)
(* it has completed, whatever the outcomes and whatever liveUpdates is.    *)
(***************************************************************************)
THM_C10 ==
    (options.noUpdates /\ ~cancelled) =>
        IF stopped
        THEN Len(events) = 1 /\ IsTerminalEvent(events[1])
        ELSE events = <<>>

\* three attempts with liveUpdates on and a wait between them, one event
WIT_C10 ==
    /\ options \in ValidOptions
    /\ options.noUpdates /\ options.liveUpdates
    /\ stopped /\ ~cancelled
    /\ Len(replies) = 3
    /\ now > 0
    /\ Len(events) = 1

(***************************************************************************)
(* C11 as stated: with liveUpdates off and noUpdates off, a stream that    *)
(* completed without cancellation carries as many events as GETs were      *)
(* issued, plus one.                                                       *)
(***************************************************************************)
AttemptUpdatesOnly == ~options.liveUpdates /\ ~options.noUpdates

CEX_C11 ==
    (AttemptUpdatesOnly /\ stopped /\ ~cancelled) => Len(events) = gets + 1

(***************************************************************************)
(* C11 amended: with liveUpdates off and noUpdates off, a stream that      *)
(* completed without cancellation carries one {loading: true} event per    *)
(* GET, one "Attempt k of M" event per scheduled retry and the terminal    *)
(* event: twice as many events as GETs were issued.                        *)
(***************************************************************************)
CountEvents(P(_)) == Cardinality({i \in 1..Len(events) : P(events[i])})

IsLoadingTrue(e) == e = [loading |-> TRUE]
IsAttemptUpdate(e) == IsProgressEvent(e) /\ e.error.message[1] = "Attempt"

THM_C11 ==
    (AttemptUpdatesOnly /\ stopped /\ ~cancelled) =>
        /\ CountEvents(IsLoadingTrue) = gets
        /\ CountEvents(IsAttemptUpdate) = gets - 1
        /\ CountEvents(IsTerminalEvent) = 1
        /\ Len(events) = 2 * gets

WIT_C11 ==
    /\ options \in ValidOptions
    /\ AttemptUpdatesOnly
    /\ stopped /\ ~cancelled
    /\ gets = 3
    /\ Len(events) = 6

(***************************************************************************)
(* C12 as stated: with the default options and a first response            *)
(* 200 {ready: true, data: "x"}, the event list of the stream is exactly   *)
(* the single event {ready: true, data: "x", loading: false}.              *)
(***************************************************************************)
CEX_C12 ==
    (options = defaultOptions /\ replies = <<ReadyReply("x")>>) =>
        events = <<[ready |-> TRUE, data |-> "x", loading |-> FALSE]>>

(***************************************************************************)
(* C12 amended: with the default options and a first response              *)
(* 200 {ready: true, data: "x"}, the event list of the stream is exactly   *)
(* {loading: true} followed by {ready: true, data: "x", loading: false},   *)
(* and the stream is complete after one GET.                               *)
(***************************************************************************)
THM_C12 ==
    (options = defaultOptions /\ replies = <<ReadyReply("x")>>) =>
        /\ events = <<[loading |-> TRUE],
                      [ready |-> TRUE, data |-> "x", loading |-> FALSE]>>
        /\ stopped
        /\ gets = 1

WIT_C12 ==
    /\ options = defaultOptions
    /\ replies = <<ReadyReply("x")>>
    /\ stopped /\ ~cancelled

(***************************************************************************)
(* C13: the wait scheduled before retry k lasts interval under the linear  *)
(* strategy and interval * 2^(k-1) under the exponential one, and the GET  *)
(* of retry k is issued when exactly that time has passed.                 *)
(***************************************************************************)
RECURSIVE TwoTo(_)
TwoTo(k) == IF k = 0 THEN 1 ELSE 2 * TwoTo(k - 1)

ExpectedDelay(o, k) ==
    IF o.strategy = "linear" THEN o.interval ELSE o.interval * TwoTo(k - 1)

THM_C13 ==
    [][options.strategy \in Strategies =>
          /\ (wait'.pending /\ ~wait.pending) =>
                /\ attempts' \in 1..options.retries
                /\ wait'.due - now = ExpectedDelay(options, attempts')
          /\ (wait.pending /\ gets' # gets) => now = wait.due]_vars

\* the second exponential wait is pending
WIT_C13 ==
    /\ options \in ValidOptions
    /\ options.strategy = "exponential"
    /\ options.interval = IntervalChecked
    /\ attempts = 2
    /\ wait.pending
    /\ wait.due - now = 2 * IntervalChecked

(***************************************************************************)
(* The classification of outcomes: the same service, with progress reports *)
(* as attempt updates so that every handled outcome shows its error code,  *)
(* and the GET resolving with any status and body.                         *)
(***************************************************************************)
Statuses == {200, 204, 404, 500, 0}

Bodies ==
    {<<>>, [ready |-> TRUE], [ready |-> FALSE], [data |-> "x"],
     [ready |-> TRUE, data |-> "x"], [ready |-> FALSE, data |-> "x"]}

Outcomes == [status : Statuses, body : Bodies]

ClassifyOptions ==
    [retries : {0, 1},
     interval : {0},
     strategy : {"linear"},
     updateInterval : {UpdateIntervalChecked},
     retryOnServerFailure : BOOLEAN,
     retryOnUnexpectedFormat : BOOLEAN,
     liveUpdates : {FALSE},
     noUpdates : {FALSE},
     nonInteger : {{}}]

ClassifyInit ==
    /\ options \in ClassifyOptions
    /\ callState = "idle"
    /\ subscribed = FALSE
    /\ attempts = 0
    /\ startTime = 0
    /\ now = 0
    /\ stopped = FALSE
    /\ events = <<>>
    /\ gets = 0
    /\ httpPending = FALSE
    /\ replies = <<>>
    /\ wait = NoTimer
    /\ live = NoTimer
    /\ cancelled = FALSE
    /\ other = NoOperation
    /\ unsubscribed = FALSE

ClassifyNext ==
    \/ Get
    \/ Subscribe
    \/ \E r \in Outcomes : Respond(r)
    \/ WaitElapsed

ClassifySpec == ClassifyInit /\ [][ClassifyNext]_vars

\* the class the service treated the outcome of this step as
HandledAs ==
    LET e == Last(events')
    IN  IF IsReadyEvent(e) THEN "Ready"
        ELSE CASE e.error.errorCode = UNEXPECTED_RESPONSE_FORMAT -> "FormatInvalid"
               [] e.error.errorCode = DATA_NOT_READY_YET -> "NotReadyRetryable"
               [] e.error.errorCode = UNKNOWN_ERROR -> "ServerFailure"

(***************************************************************************)
(* C14 as stated: every outcome is handled as exactly one class: 200 with  *)
(* ready true and data defined as Ready, 200 with any other body as        *)
(* FormatInvalid, 404 with ready false as NotReadyRetryable, 404 with any  *)
(* other body and every other status as ServerFailure.                     *)
(***************************************************************************)
CEX_C14 ==
    [][\A r \in Outcomes :
          Responded(r) =>
              /\ Len(events') = Len(events) + 1
              /\ HandledAs = Classify(r)]_vars

(***************************************************************************)
(* C14 amended: every outcome is handled as exactly one class: 200 with    *)
(* ready true and data defined as Ready, 200 with any other body and every *)
(* other 2xx status as FormatInvalid, 404 with ready false as              *)
(* NotReadyRetryable, 404 with any other body and every other non-2xx      *)
(* status as ServerFailure.                                                *)
(***************************************************************************)
ClassifyDelivered(r) ==
    IF r.status = 200
    THEN IF "ready" \in DOMAIN r.body /\ r.body.ready = TRUE
            /\ "data" \in DOMAIN r.body
         THEN "Ready" ELSE "FormatInvalid"
    ELSE IF r.status \in 200..299 THEN "FormatInvalid"
    ELSE IF r.status = 404 /\ "ready" \in DOMAIN r.body /\ r.body.ready = FALSE
         THEN "NotReadyRetryable" ELSE "ServerFailure"

THM_C14 ==
    [][\A r \in Outcomes :
          Responded(r) =>
              /\ Len(events') = Len(events) + 1
              /\ HandledAs = ClassifyDelivered(r)]_vars

\* a 404 whose body says ready: true was handled as a server failure after
\* a 204 had been retried as a format error
WIT_C14 ==
    /\ Len(replies) = 2
    /\ replies[1].status = 204
    /\ replies[2] = [status |-> 404, body |-> [ready |-> TRUE, data |-> "x"]]
    /\ HasErrorCode(events[2], UNEXPECTED_RESPONSE_FORMAT)
    /\ HasErrorCode(Last(events), UNKNOWN_ERROR)
    /\ stopped

(***************************************************************************)
(* C16 as stated: at most one of the GET in flight, the wait timer and the *)
(* countdown stream is pending at any time.                                *)
(***************************************************************************)
CEX_C16 ==
    /\ ~(httpPending /\ wait.pending)
    /\ ~(httpPending /\ live.pending)
    /\ ~(wait.pending /\ live.pending)

(***************************************************************************)
(* C16 amended: a GET in flight never coexists with a pending wait timer   *)
(* or a pending countdown stream; the countdown stream is pending only     *)
(* while the wait timer it reports on is pending.                          *)
(***************************************************************************)
THM_C16 ==
    /\ ~(httpPending /\ wait.pending)
    /\ ~(httpPending /\ live.pending)
    /\ live.pending => wait.pending

\* a wait and its countdown, after the first countdown event
WIT_C16 ==
    /\ options \in ValidOptions
    /\ wait.pending /\ live.pending
    /\ events # <<>> /\ IsCountdownEvent(Last(events))

(***************************************************************************)
(* C17: with noUpdates off, every step that issues a GET issues exactly    *)
(* one and appends {loading: true} to the events in the same step, after   *)
(* everything emitted before; the stream carries as many {loading: true}   *)
(* events as GETs were issued.                                             *)
(***************************************************************************)
LoadingPerGet ==
    (callState = "returned" /\ ~options.noUpdates) =>
        CountEvents(IsLoadingTrue) = gets

THM_C17 ==
    /\ []LoadingPerGet
    /\ [][(gets' # gets /\ ~options.noUpdates) =>
             /\ gets' = gets + 1
             /\ events' = Append(events, [loading |-> TRUE])]_vars

\* the third GET of an operation with countdowns is in flight
WIT_C17 ==
    /\ options \in ValidOptions
    /\ ~options.noUpdates /\ options.liveUpdates
    /\ gets = 3 /\ httpPending
    /\ Last(events) = [loading |-> TRUE]
    /\ CountEvents(IsLoadingTrue) = 3

(***************************************************************************)
(* C18: the countdown stream of a wait is pending only while that wait is  *)
(* pending, no GET is in flight and the cancel signal has not fired; every *)
(* countdown event of the wait before retry k comes after exactly k        *)
(* {loading: true} events; no countdown event is appended in a step taken  *)
(* while a GET is in flight or once the cancel signal has fired.           *)
(***************************************************************************)
CountIn(evs, P(_)) == Cardinality({i \in 1..Len(evs) : P(evs[i])})

CountdownWithinItsWait ==
    /\ live.pending =>
          /\ wait.pending /\ ~httpPending /\ ~cancelled
          /\ live.attempts = attempts - 1
    /\ \A j \in 1..Len(events) :
          IsCountdownEvent(events[j]) =>
              CountIn(SubSeq(events, 1, j - 1), IsLoadingTrue)
                  = events[j].error.attempts + 1

THM_C18 ==
    /\ []CountdownWithinItsWait
    /\ [][(httpPending \/ cancelled') =>
             CountIn(events', IsCountdownEvent)
                 = CountIn(events, IsCountdownEvent)]_vars

\* the countdown of the second wait was reported and the third GET is in
\* flight
WIT_C18 ==
    /\ options \in ValidOptions
    /\ gets = 3 /\ httpPending
    /\ ~live.pending
    /\ \E j \in 1..Len(events) :
          IsCountdownEvent(events[j]) /\ events[j].error.attempts = 1

(***************************************************************************)
(* C19: attempts counts the retries scheduled for retryable outcomes of    *)
(* every class; the retryable outcome that finds attempts = retries ends   *)
(* the operation with one error event whose errorCode is the code of that  *)
(* outcome's class, with attempts = maxRetries = retries.                  *)
(***************************************************************************)
Retryable(r, o) ==
    \/ Classify(r) = "NotReadyRetryable"
    \/ Classify(r) = "FormatInvalid" /\ o.retryOnUnexpectedFormat
    \/ Classify(r) = "ServerFailure" /\ o.retryOnServerFailure

CodeOf(class) ==
    CASE class = "NotReadyRetryable" -> DATA_NOT_READY_YET
      [] class = "FormatInvalid" -> UNEXPECTED_RESPONSE_FORMAT
      [] class = "ServerFailure" -> UNKNOWN_ERROR

RetryableReplies ==
    Cardinality({i \in 1..Len(replies) : Retryable(replies[i], options)})

BudgetShared ==
    callState = "returned" =>
        attempts = IF RetryableReplies < options.retries
                   THEN RetryableReplies ELSE options.retries

THM_C19 ==
    /\ []BudgetShared
    /\ [][\A r \in Responses :
             (Responded(r) /\ Retryable(r, options)
                  /\ attempts = options.retries) =>
                 /\ EndsWith(CodeOf(Classify(r)))
                 /\ Last(events').error.attempts = options.retries
                 /\ Last(events').error.maxRetries = options.retries
                 /\ Last(events').error.message[1]
                       = "Max retries reached. Retried"]_vars

\* not ready, then a malformed 200, then a 500 that exhausts the budget
WIT_C19 ==
    /\ options \in ValidOptions
    /\ options.retries = 2
    /\ options.retryOnUnexpectedFormat /\ options.retryOnServerFailure
    /\ Len(replies) = 3
    /\ replies[1] = NotReadyReply
    /\ Classify(replies[2]) = "FormatInvalid"
    /\ replies[3].status = 500
    /\ stopped /\ ~cancelled
    /\ HasErrorCode(Last(events), UNKNOWN_ERROR)
    /\ Last(events).error.attempts = 2

(***************************************************************************)
(* C20: once get has returned, 0 <= attempts <= retries, at most           *)
(* attempts + 1 GETs have been issued, and at most one issued GET has no   *)
(* delivered outcome: the one in flight or the one the cancel signal       *)
(* abandoned.                                                              *)
(***************************************************************************)
THM_C20 ==
    callState = "returned" =>
        /\ 0 <= attempts /\ attempts <= options.retries
        /\ gets <= attempts + 1
        /\ gets <= options.retries + 1
        /\ gets - Len(replies) \in {0, 1}
        /\ httpPending => gets = Len(replies) + 1
        /\ (gets = Len(replies) + 1 /\ ~httpPending) => cancelled

\* the last GET the budget allows is in flight
WIT_C20 ==
    /\ options \in ValidOptions
    /\ options.retries = MaxRetriesChecked
    /\ attempts = MaxRetriesChecked
    /\ gets = MaxRetriesChecked + 1
    /\ httpPending

(***************************************************************************)
(* The caller of part_000: one cancel$ subject shared by every operation   *)
(* that loadData starts.  The variables hold the operation in hand; other  *)
(* holds the second operation of the same caller, if there is one.         *)
(***************************************************************************)
ComponentOptions ==
    [retries : {0, 1},
     interval : {IntervalChecked},
     strategy : {"linear"},
     updateInterval : {UpdateIntervalChecked},
     retryOnServerFailure : {FALSE},
     retryOnUnexpectedFormat : {FALSE},
     liveUpdates : BOOLEAN,
     noUpdates : BOOLEAN,
     nonInteger : {{}}]

ComponentInit ==
    /\ options \in ComponentOptions
    /\ callState = "idle"
    /\ subscribed = FALSE
    /\ attempts = 0
    /\ startTime = 0
    /\ now = 0
    /\ stopped = FALSE
    /\ events = <<>>
    /\ gets = 0
    /\ httpPending = FALSE
    /\ replies = <<>>
    /\ wait = NoTimer
    /\ live = NoTimer
    /\ cancelled = FALSE
    /\ other = NoOperation
    /\ unsubscribed = FALSE

\* the operation in hand, as a record
InHand(isEarlier) ==
    [exists |-> TRUE, earlier |-> isEarlier, callState |-> callState,
     subscribed |-> subscribed, attempts |-> attempts,
     startTime |-> startTime, stopped |-> stopped, events |-> events,
     gets |-> gets, httpPending |-> httpPending, replies |-> replies,
     wait |-> wait, live |-> live, cancelled |-> cancelled,
     unsubscribed |-> unsubscribed]

\* loadData(): cancel$.next() reaches the operation started before, then
\* get() builds a new stream and subscribe() starts it, all in one turn; a
\* caller starts at most two operations
loadData ==
    /\ ~other.exists
    /\ callState = "idle" \/ subscribed
    /\ validateOptions(options)
    /\ other' = IF subscribed THEN cancelNext(InHand(TRUE)) ELSE other
    /\ callState' = "returned"
    /\ attempts' = 0
    /\ startTime' = now
    /\ subscribed' = TRUE
    /\ stopped' = FALSE
    /\ cancelled' = FALSE
    /\ unsubscribed' = FALSE
    /\ events' = IF fetchDataLoading(options) = <<>> THEN <<>>
                 ELSE sendResponse(<<>>, FALSE, fetchDataLoading(options)[1])
    /\ gets' = 1
    /\ httpPending' = TRUE
    /\ replies' = <<>>
    /\ wait' = NoTimer
    /\ live' = NoTimer
    /\ UNCHANGED <<options, now>>

\* the next callback to run belongs to the other operation: each
\* subscription of request() has its own observer, timers and GET
Dispatch ==
    /\ other.exists
    /\ other' = InHand(~other.earlier)
    /\ callState' = other.callState
    /\ subscribed' = other.subscribed
    /\ attempts' = other.attempts
    /\ startTime' = other.startTime
    /\ stopped' = other.stopped
    /\ events' = other.events
    /\ gets' = other.gets
    /\ httpPending' = other.httpPending
    /\ replies' = other.replies
    /\ wait' = other.wait
    /\ live' = other.live
    /\ cancelled' = other.cancelled
    /\ unsubscribed' = other.unsubscribed
    /\ UNCHANGED <<options, now>>

ComponentNext ==
    \/ loadData
    \/ Dispatch
    \/ \E r \in Responses : Respond(r)
    \/ LiveTick
    \/ LiveStop
    \/ WaitElapsed
    \/ AdvanceTime
    \/ Cancel

ComponentSpec == ComponentInit /\ [][ComponentNext]_vars

EarlierOp == IF other.earlier THEN other ELSE InHand(TRUE)

LaterOp == IF other.earlier THEN InHand(FALSE) ELSE other

IsLive(op) ==
    op.subscribed /\
        (~op.stopped \/ op.httpPending \/ op.wait.pending \/ op.live.pending)

EarlierEvents ==
    IF other.exists /\ other.earlier THEN other.events ELSE events

(***************************************************************************)
(* C15: once loadData has started a second operation for the same caller,  *)
(* the earlier operation is cancelled and has nothing pending, so at most  *)
(* one of the two is live; from the step that starts the second operation  *)
(* on, which emits its first event, the earlier operation's events never   *)
(* change.                                                                 *)
(***************************************************************************)
EarlierIsCancelled ==
    other.exists =>
        /\ EarlierOp.cancelled
        /\ ~IsLive(EarlierOp)
        /\ ~(IsLive(EarlierOp) /\ IsLive(LaterOp))

THM_C15 ==
    /\ []EarlierIsCancelled
    /\ [][other'.exists => EarlierEvents' = EarlierEvents]_vars

\* the earlier operation was superseded while its retry GET was in flight;
\* the later one has run to its terminal event
WIT_C15 ==
    /\ other.exists /\ other.earlier
    /\ other.gets = 2 /\ Len(other.replies) = 1
    /\ other.events # <<>>
    /\ stopped /\ ~cancelled
    /\ events # <<>> /\ IsTerminalEvent(Last(events))

(***************************************************************************)
(* C21: once the stream of an operation has completed, by a terminal event *)
(* or by the cancel signal, it stays completed, no GET is in flight and no *)
(* timer is pending for it, and no later step (a repeated cancel signal,   *)
(* the clock moving on) adds an event or issues a GET.                     *)
(***************************************************************************)
NothingPendingOnceStopped ==
    stopped => (~httpPending /\ ~wait.pending /\ ~live.pending)

THM_C21 ==
    /\ []NothingPendingOnceStopped
    /\ [][stopped =>
             /\ stopped'
             /\ events' = events
             /\ gets' = gets
             /\ replies' = replies]_vars

\* the cancel signal fired after the operation had ended with a terminal
\* event that followed a retry
WIT_C21 ==
    /\ options \in ValidOptions
    /\ stopped /\ cancelled
    /\ gets >= 2
    /\ events # <<>> /\ IsTerminalEvent(Last(events))

(***************************************************************************)
(* One stream returned by get, subscribed to up to twice and unsubscribed  *)
(* from.  attempts and startTime belong to request(), outside the          *)
(* subscribe function of the stream: both subscriptions read and write the *)
(* same two variables.  Everything else is per subscription: the variables *)
(* hold the subscription in hand, other holds the second one.              *)
(***************************************************************************)
StreamOptions ==
    [retries : {1},
     interval : {IntervalChecked},
     strategy : {"linear"},
     updateInterval : {UpdateIntervalChecked},
     retryOnServerFailure : {FALSE},
     retryOnUnexpectedFormat : {FALSE},
     liveUpdates : BOOLEAN,
     noUpdates : {FALSE},
     nonInteger : {{}}]

StreamInit ==
    /\ options \in StreamOptions
    /\ callState = "idle"
    /\ subscribed = FALSE
    /\ attempts = 0
    /\ startTime = 0
    /\ now = 0
    /\ stopped = FALSE
    /\ events = <<>>
    /\ gets = 0
    /\ httpPending = FALSE
    /\ replies = <<>>
    /\ wait = NoTimer
    /\ live = NoTimer
    /\ cancelled = FALSE
    /\ other = NoOperation
    /\ unsubscribed = FALSE

\* a second subscribe() on the stream get returned: the subscribe function
\* of line 139 runs again with a new observer; a stream is subscribed to at
\* most twice
SubscribeAgain ==
    /\ subscribed
    /\ ~other.exists
    /\ other' = InHand(TRUE)
    /\ stopped' = FALSE
    /\ cancelled' = FALSE
    /\ unsubscribed' = FALSE
    /\ events' = IF fetchDataLoading(options) = <<>> THEN <<>>
                 ELSE sendResponse(<<>>, FALSE, fetchDataLoading(options)[1])
    /\ gets' = 1
    /\ httpPending' = TRUE
    /\ replies' = <<>>
    /\ wait' = NoTimer
    /\ live' = NoTimer
    /\ UNCHANGED <<options, callState, subscribed, attempts, startTime, now>>

\* the next callback to run belongs to the other subscription of the same
\* stream: its observer, GET and timers are its own, attempts and startTime
\* are the ones of request()
DispatchSubscriber ==
    /\ other.exists
    /\ other' = InHand(~other.earlier)
    /\ stopped' = other.stopped
    /\ events' = other.events
    /\ gets' = other.gets
    /\ httpPending' = other.httpPending
    /\ replies' = other.replies
    /\ wait' = other.wait
    /\ live' = other.live
    /\ cancelled' = other.cancelled
    /\ unsubscribed' = other.unsubscribed
    /\ UNCHANGED <<options, callState, subscribed, attempts, startTime, now>>

\* subscription.unsubscribe() by the caller: the subscriber is closed and
\* takes no more values; the subscribe function returned no teardown, so
\* the GET and the timers it started are left as they are
Unsubscribe ==
    /\ subscribed
    /\ ~stopped
    /\ ~unsubscribed
    /\ unsubscribed' = TRUE
    /\ stopped' = TRUE
    /\ UNCHANGED <<other, options, callState, subscribed, attempts, startTime,
                   now, events, gets, httpPending, replies, wait, live,
                   cancelled>>

StreamNext ==
    \/ Get
    \/ Subscribe
    \/ SubscribeAgain
    \/ DispatchSubscriber
    \/ Unsubscribe
    \/ \E r \in Responses : Respond(r)
    \/ LiveTick
    \/ LiveStop
    \/ WaitElapsed
    \/ AdvanceTime
    \/ Cancel

StreamSpec == StreamInit /\ [][StreamNext]_vars

\* the step belongs to the run in hand: no other run is started or resumed
SameRun ==
    /\ other'.exists = other.exists
    /\ other.exists => other'.earlier = other.earlier

\* the step resumes the other run
OtherRunResumes ==
    other.exists /\ other'.exists /\ other'.earlier # other.earlier

IsExhaustionEvent(e) ==
    IsErrorEvent(e) /\ "maxRetries" \in DOMAIN e.error
        /\ e.error.message[1] = "Max retries reached. Retried"

(***************************************************************************)
(* C22 as stated: the first GET of every run is issued with attempts = 0;  *)
(* a run is told that its retries are exhausted only after it has issued   *)
(* retries + 1 GETs itself; when a run resumes, attempts is what it was    *)
(* when that run last acted.                                               *)
(***************************************************************************)
FirstRequestAtZero ==
    (subscribed /\ gets = 1 /\ replies = <<>>) => attempts = 0

FullBudget ==
    \A i \in 1..Len(events) :
        IsExhaustionEvent(events[i]) => gets = options.retries + 1

CEX_C22 ==
    /\ []FirstRequestAtZero
    /\ []FullBudget
    /\ [][OtherRunResumes => attempts' = other.attempts]_vars

(***************************************************************************)
(* C23 as stated: once the caller has unsubscribed from the stream of a    *)
(* running operation, with or without the cancel signal, no step of that   *)
(* operation issues a GET.                                                 *)
(***************************************************************************)
CEX_C23 ==
    [][(unsubscribed /\ SameRun) => gets' = gets]_vars

====
